---- MODULE Spec2Model ----
(***************************************************************************)
(* BioFloc dashboard (app.py): three CSV tables written by save_data and   *)
(* by the Edit/Delete tab, and the values one run of the script renders    *)
(* from them (live population, growth rate, download).                     *)
(*                                                                         *)
(* Representation.                                                         *)
(*   - A file is [exists, rows]; rows are the CSV lines in file order, one *)
(*     record per line, fields named as the CSV header names them.         *)
(*   - A text cell (Pond, Pond_ID, Category) is the sequence of its        *)
(*     characters, so that pandas' type inference on read_csv can be       *)
(*     computed from the characters.                                       *)
(*   - A date cell is the day's ordinal: strftime("%Y-%m-%d") and          *)
(*     pd.to_datetime are inverse on calendar days and the ISO text is     *)
(*     never numeric, so read_csv leaves it alone.                         *)
(*   - Float cells are fixed point: mg/L and cost in hundredths, weight in *)
(*     grams, volume and density in tenths, biomass in hundredths of a kg. *)
(*     The inputs are chosen so that every float operation of the script   *)
(*     is exact on them.                                                   *)
(*   - Columns Temp, DO, pH, Alk, Floc, Feed_kg and Molasses_kg are float  *)
(*     columns copied through unchanged; they are left out of the rows.    *)
(***************************************************************************)
EXTENDS Integers, Sequences, FiniteSets, TLC

VARIABLES db, mort, exp, cfg, ui, pc, buf, expected, raced

vars == <<db, mort, exp, cfg, ui, pc, buf, expected, raced>>

\* ---------------------------------------------------------------- bounds

\* Rows the three tables hold together.
MaxRows == 2

\* Browser sessions running the script against the same files.
Sessions == {1, 2}

\* The single operator's session.
Operator == CHOOSE s \in Sessions : \A t \in Sessions : s <= t

\* ---------------------------------------------------------------- inputs

TankDefault == <<"E", "x", "p", "-", "0", "1">>

TankIds == {TankDefault, <<"7">>, <<"0", "7">>}

\* value=15.0, in tenths of a cubic metre
VolumeDefault == 150

\* value=100.0, in tenths of a fish per cubic metre
DensityDefault == 1000

\* The sidebar settings a session moves between: the defaults, the two
\* numeric tank ids, and a small tank (0.5 m3 at 15 fish/m3: 7.5 fish).
Configs ==
  { [pond_id |-> p, volume |-> VolumeDefault, density |-> DensityDefault] :
      p \in TankIds }
  \cup { [pond_id |-> TankDefault, volume |-> 5, density |-> 150] }

Dates == {1, 2}

\* What the entry form submits: date, TAN, NO2, NO3 (hundredths of a mg/L)
\* and the average weight (grams).  The first line is the form's defaults but
\* for the weight.
Entries ==
  { [date |-> 1, tan |-> 10, no2 |-> 1, no3 |-> 1000, w |-> 40],
    [date |-> 2, tan |-> 10, no2 |-> 1, no3 |-> 1000, w |-> 50],
    [date |-> 2, tan |-> 25, no2 |-> 0, no3 |-> 500,  w |-> 40],
    [date |-> 1, tan |-> -5, no2 |-> 3, no3 |-> 0,    w |-> 0] }

\* number_input(step=1, value=0): any integer
DeadInputs == {-1, 5}

\* datetime.now() of the mortality form, as a day of Dates
Today == 2

\* "Cost Amount" as left by default
CostDefault == 0

Categories == { <<"F", "e", "e", "d">>, <<"M", "i", "s", "c">> }

Digits == {"0", "1", "2", "3", "4", "5", "6", "7", "8", "9"}

\* ------------------------------------------------------- pandas CSV layer

\* A cell read_csv would parse as an integer.
IsNumeric(t) == Len(t) > 0 /\ \A i \in 1..Len(t) : t[i] \in Digits

\* repr(int(t)) for a numeric t: the leading zeros are gone.
RECURSIVE IntText(_)
IntText(t) == IF Len(t) > 1 /\ t[1] = "0" THEN IntText(Tail(t)) ELSE t

\* read_csv's dtype inference for one column: int64 when every cell parses
\* as an integer, object (the strings as they are) otherwise.
ColumnIsInt(rows, c) ==
  Len(rows) > 0 /\ \A i \in 1..Len(rows) : IsNumeric(rows[i][c])

\* pd.read_csv(filename): the rows, with the text column c typed.  A typed
\* cell is [int, s]: an int64 with decimal text s, or the str s.
ReadCsv(rows, c) ==
  LET isInt == ColumnIsInt(rows, c)
  IN  [i \in 1..Len(rows) |->
         [rows[i] EXCEPT ![c] =
            IF isInt THEN [int |-> TRUE, s |-> IntText(rows[i][c])]
                     ELSE [int |-> FALSE, s |-> rows[i][c]]]]

\* pd.DataFrame([data]): the submitted text is a str.
DataFrame(data, c) == <<[data EXCEPT ![c] = [int |-> FALSE, s |-> data[c]]]>>

\* DataFrame.to_csv(filename, index=False): each value's text.
ToCsv(frame, c) ==
  [i \in 1..Len(frame) |-> [frame[i] EXCEPT ![c] = frame[i][c].s]]

\* Series == str of pandas: an int64 never equals a str.
SeriesEq(v, text) == ~v.int /\ v.s = text

NoFile == [exists |-> FALSE, rows |-> <<>>]

\* save_data up to and including pd.read_csv: what the writer holds.
SaveRead(f, c) ==
  IF ~f.exists THEN [exists |-> FALSE, frame |-> <<>>]
  ELSE [exists |-> TRUE, frame |-> ReadCsv(f.rows, c)]

\* Concat without the frame read: the file is overwritten by the new row.
ConcatNewOnly(frame, new) == new

\* pd.concat([read, df_new], ignore_index=True)
Concat(frame, new) == frame \o new

\* save_data from there: to_csv of the new row alone, or of the concatenation.
SaveWrite(held, data, c) ==
  IF ~held.exists
    THEN [exists |-> TRUE, rows |-> ToCsv(DataFrame(data, c), c)]
    ELSE [exists |-> TRUE,
          rows |-> ToCsv(Concat(held.frame, DataFrame(data, c)), c)]

\* save_data(data, filename), run without interruption.
save_data(data, f, c) == SaveWrite(SaveRead(f, c), data, c)

\* ------------------------------------------------------ population logic

\* int(x) of Python for x = n / d, d > 0: truncation towards zero.
PyInt(n, d) == IF n >= 0 THEN n \div d ELSE -((-n) \div d)

RECURSIVE DeadSum(_, _)
\* m_df[m_df["Pond_ID"] == pond_id]["Dead_Count"].sum()
DeadSum(frame, pond) ==
  IF Len(frame) = 0 THEN 0
  ELSE (IF SeriesEq(frame[1].Pond_ID, pond) THEN frame[1].Dead_Count ELSE 0)
       + DeadSum(Tail(frame), pond)

\* total_dead: 0 unless the mortality file is there.
total_dead(m, pond) ==
  IF m.exists THEN DeadSum(ReadCsv(m.rows, "Pond_ID"), pond) ELSE 0

\* initial_count = int(volume * initial_density), both in tenths
initial_count(c) == PyInt(c.volume * c.density, 100)

\* current_count = initial_count - total_dead
current_count(m, c) == initial_count(c) - total_dead(m, c.pond_id)

\* ------------------------------------------------------------ daily entry

\* total_n without the nitrate term
total_n_no_nitrate(tan, nitrite, nitrate) == tan + nitrite

\* total_n = tan + nitrite + nitrate
total_n(tan, nitrite, nitrate) == tan + nitrite + nitrate

\* round((current_count * w_g) / 1000, 2), in hundredths of a kg.  The
\* weights of Entries are multiples of 10 g, so the quotient is exact.
biomass(count, w_g) == (count * w_g) \div 10

\* The dict the entry form hands to save_data.
EntryRow(e, c, count) ==
  [Date |-> e.date, Pond |-> c.pond_id, TAN |-> e.tan, NO2 |-> e.no2,
   NO3 |-> e.no3, Total_N |-> total_n(e.tan, e.no2, e.no3),
   Weight |-> e.w, Biomass_kg |-> biomass(count, e.w)]

\* MortRow with the count clamped at zero, as min_value=0 would.
MortRowClamped(n, c) ==
  [Date |-> Today, Pond_ID |-> c.pond_id,
   Dead_Count |-> IF n < 0 THEN 0 ELSE n]

\* The dict the mortality form hands to save_data.
MortRow(n, c) == [Date |-> Today, Pond_ID |-> c.pond_id, Dead_Count |-> n]

\* The dict the expense form hands to save_data.
ExpRow(d, cat, amt) == [Date |-> d, Category |-> cat, Cost |-> amt]

\* -------------------------------------------------------------- analytics

\* sort_values left out: the rows in file order.
sort_values_omitted(rows) == {rows}

\* df.sort_values('Date'): pandas' default sort is not stable, so rows of
\* one date may come out in any order.  All the orders a build may produce.
sort_values(rows) ==
  LET n == Len(rows)
      ps == { p \in Permutations(1..n) :
                \A i \in 1..n, j \in 1..n :
                   i < j => rows[p[i]].Date <= rows[p[j]].Date }
  IN  { [i \in 1..n |-> rows[p[i]]] : p \in ps }

\* math.log(w) in units of 1e-4, for the weights of Entries; a weight that
\* is not positive raises ValueError (see Raises).
math_log(w) == CASE w = 40 -> 36889 [] w = 50 -> 39120 [] OTHER -> 0

NoSgr == [kind |-> "none", v |-> 0]

\* Tab 2 on the sorted frame: the metric, nothing, or the ValueError.
\* round(sgr, 2) is in hundredths of a percent.
tab2(d, sorted) ==
  LET n == Len(sorted) IN
  IF ~d.exists \/ n = 0 THEN NoSgr
  ELSE IF ~(n > 1) THEN NoSgr
  ELSE IF sorted[n].Weight <= 0 \/ sorted[n - 1].Weight <= 0
         THEN [kind |-> "error", v |-> 0]
  ELSE [kind |-> "value",
        v |-> math_log(sorted[n].Weight) - math_log(sorted[n - 1].Weight)]

\* The script stops at tab 2: tabs 3, 4 and 5 are not rendered.
Raises(d, sorted) == tab2(d, sorted).kind = "error"

\* ----------------------------------------------------------------- export

NoDownload == [avail |-> FALSE, header |-> <<>>, rows |-> <<>>]

DbColumns ==
  <<"Date", "Pond", "TAN", "NO2", "NO3", "Total_N", "Weight", "Biomass_kg">>

\* DataFrame.to_csv() with no arguments: index=True, so a first column with
\* an empty header holds the row numbers.
to_csv(frame, c) ==
  [header |-> <<"">> \o DbColumns,
   rows |-> [i \in 1..Len(frame) |->
               ("" :> (i - 1)) @@ [frame[i] EXCEPT ![c] = frame[i][c].s]]]

\* tab5 without the os.path.isfile test.
tab5_unguarded(d) ==
  LET blob == to_csv(ReadCsv(d.rows, "Pond"), "Pond")
  IN  [avail |-> TRUE, header |-> blob.header, rows |-> blob.rows]

\* st.download_button(..., pd.read_csv(DB_FILE).to_csv(), ...)
tab5(d) ==
  IF ~d.exists THEN NoDownload
  ELSE LET blob == to_csv(ReadCsv(d.rows, "Pond"), "Pond")
       IN  [avail |-> TRUE, header |-> blob.header, rows |-> blob.rows]

\* ------------------------------------------------------------ edit/delete

RECURSIVE unique(_)
\* edit_df['Date'].unique(): the dates in order of first appearance
unique(rows) ==
  IF Len(rows) = 0 THEN <<>>
  ELSE LET rest == unique(SubSeq(rows, 1, Len(rows) - 1))
           d == rows[Len(rows)].Date
       IN  IF \E i \in 1..Len(rest) : rest[i] = d THEN rest
           ELSE Append(rest, d)

\* The multiselect's options, as a set
Options(d) == { unique(d.rows)[i] : i \in 1..Len(unique(d.rows)) }

\* edit_df[~edit_df['Date'].isin(dates_to_del)]
NotIsin(frame, dates) == SelectSeq(frame, LAMBDA r : r.Date \notin dates)

\* Confirm Delete from pd.read_csv on: filter, to_csv(index=False)
DeleteWrite(held, dates) ==
  [exists |-> TRUE, rows |-> ToCsv(NotIsin(held.frame, dates), "Pond")]

\* ------------------------------------------------------------ one script run

\* What a session shows after a run that got as far as it could: the sidebar
\* metric, tab 2's outcome and, unless tab 2 raised, the download of tab 5.
Render(d, m, c, sorted) ==
  LET out == tab2(d, sorted)
  IN  [count |-> current_count(m, c),
       sgr |-> out,
       download |-> IF out.kind = "error" THEN NoDownload ELSE tab5(d)]

\* The run a click, an edit or st.rerun() starts, on files d and m.
Rerun(s, d, m, c) ==
  \E sorted \in sort_values(d.rows) :
     ui' = [ui EXCEPT ![s] = Render(d, m, c, sorted)]

\* This run's tab 2 did not raise, so the forms of tabs 3 to 5 are handled.
PastTab2(d) == \E sorted \in sort_values(d.rows) : ~Raises(d, sorted)

TotalRows == Len(db.rows) + Len(mort.rows) + Len(exp.rows)

Idle(s) == pc[s] = "idle"

NoHeld == [exists |-> FALSE, frame |-> <<>>]

NoBuf == [held |-> NoHeld, entry |-> {}, dates |-> {}]

\* ------------------------------------------------------------------ state

ConfigDefault ==
  [pond_id |-> TankDefault, volume |-> VolumeDefault,
   density |-> DensityDefault]

Init ==
  /\ db = NoFile
  /\ mort = NoFile
  /\ exp = NoFile
  /\ cfg = [s \in Sessions |-> ConfigDefault]
  /\ ui = [s \in Sessions |-> Render(NoFile, NoFile, ConfigDefault, <<>>)]
  /\ pc = [s \in Sessions |-> "idle"]
  /\ buf = [s \in Sessions |-> NoBuf]
  /\ expected = <<>>
  /\ raced = FALSE

\* ---------------------------------------------------------------- sidebar

\* Editing the sidebar widgets reruns the script; no file is written.
SetConfig(s, c) ==
  /\ Idle(s)
  /\ c # cfg[s]
  /\ cfg' = [cfg EXCEPT ![s] = c]
  /\ Rerun(s, db, mort, c)
  /\ UNCHANGED <<db, mort, exp, pc, buf, expected, raced>>

\* ------------------------------------------------------------ the handlers

\* "Submit Daily Data": tab 1 comes before tab 2, so the row is saved whatever
\* tab 2 then does with it.
Submit(s, e) ==
  /\ Idle(s)
  /\ TotalRows < MaxRows
  /\ LET row == EntryRow(e, cfg[s], current_count(mort, cfg[s]))
         d == save_data(row, db, "Pond")
     IN  /\ db' = d
         /\ expected' = Append(expected, row)
         /\ Rerun(s, d, mort, cfg[s])
  /\ UNCHANGED <<mort, exp, cfg, pc, buf, raced>>

\* "Log Expense": no rerun, the run goes on to tabs 4 and 5.
LogExpense(s, cat) ==
  /\ Idle(s)
  /\ TotalRows < MaxRows
  /\ exp' = save_data(ExpRow(Today, cat, CostDefault), exp, "Category")
  /\ \E sorted \in sort_values(db.rows) :
        /\ ~Raises(db, sorted)
        /\ ui' = [ui EXCEPT ![s] = Render(db, mort, cfg[s], sorted)]
  /\ UNCHANGED <<db, mort, cfg, pc, buf, expected, raced>>

\* Dates picked in the multiselect, "Confirm Delete", then st.rerun()
ConfirmDelete(s, dates) ==
  /\ Idle(s)
  /\ db.exists
  /\ PastTab2(db)
  /\ dates \subseteq Options(db)
  /\ LET d == DeleteWrite(SaveRead(db, "Pond"), dates)
     IN  /\ db' = d
         /\ Rerun(s, d, mort, cfg[s])
  /\ expected' = SelectSeq(expected, LAMBDA r : r.Date \notin dates)
  /\ UNCHANGED <<mort, exp, cfg, pc, buf, raced>>

\* "Record Mortality", then st.rerun()
RecordMortality(s, m_num) ==
  /\ Idle(s)
  /\ TotalRows < MaxRows
  /\ PastTab2(db)
  /\ LET m == save_data(MortRow(m_num, cfg[s]), mort, "Pond_ID")
     IN  /\ mort' = m
         /\ Rerun(s, db, m, cfg[s])
  /\ UNCHANGED <<db, exp, cfg, pc, buf, expected, raced>>

\* ------------------------------------------------------ the single operator

Next ==
  \/ \E c \in Configs : SetConfig(Operator, c)
  \/ \E e \in Entries : Submit(Operator, e)
  \/ \E cat \in Categories : LogExpense(Operator, cat)
  \/ \E dates \in SUBSET Dates : ConfirmDelete(Operator, dates)
  \/ \E n \in DeadInputs : RecordMortality(Operator, n)

Spec == Init /\ [][Next]_vars

\* ------------------------------------------------- two sessions, one file

\* Neither save_data nor Confirm Delete locks the file: between a session's
\* pd.read_csv and its to_csv the other session may write.  The two steps of
\* each, for the measurement table.  `expected` is the table as it would be
\* had every completed operation been applied whole, in order of completion;
\* `raced` says that some to_csv wrote a frame read before another write.
\* The sessions are followed up to the first such write: after it they only
\* finish what they have begun.

\* What the two sessions submit: the two entries of positive weight and
\* distinct dates.
ConcEntries == { e \in Entries : e.tan = 10 }

Pending == Cardinality({ t \in Sessions : pc[t] = "append" })

\* save_data to the end of pd.read_csv (or to the failed isfile test)
SubmitRead(s, e) ==
  /\ Idle(s)
  /\ ~raced
  /\ Len(db.rows) + Pending < MaxRows
  /\ pc' = [pc EXCEPT ![s] = "append"]
  /\ buf' = [buf EXCEPT ![s] =
               [held |-> SaveRead(db, "Pond"),
                entry |-> {EntryRow(e, cfg[s], current_count(mort, cfg[s]))},
                dates |-> {}]]
  /\ UNCHANGED <<db, mort, exp, cfg, ui, expected, raced>>

\* to_csv of save_data, and the rest of the run
SubmitWrite(s) ==
  /\ pc[s] = "append"
  /\ \E row \in buf[s].entry :
        LET d == SaveWrite(buf[s].held, row, "Pond")
        IN  /\ db' = d
            /\ expected' = Append(expected, row)
            /\ Rerun(s, d, mort, cfg[s])
  /\ raced' = (raced \/ buf[s].held # SaveRead(db, "Pond"))
  /\ pc' = [pc EXCEPT ![s] = "idle"]
  /\ buf' = [buf EXCEPT ![s] = NoBuf]
  /\ UNCHANGED <<mort, exp, cfg>>

\* Tab 4 to the end of pd.read_csv, with the dates picked from that frame
DeleteRead(s, dates) ==
  /\ Idle(s)
  /\ ~raced
  /\ db.exists
  /\ PastTab2(db)
  /\ dates \subseteq Options(db)
  /\ pc' = [pc EXCEPT ![s] = "delete"]
  /\ buf' = [buf EXCEPT ![s] =
               [held |-> SaveRead(db, "Pond"), entry |-> {}, dates |-> dates]]
  /\ UNCHANGED <<db, mort, exp, cfg, ui, expected, raced>>

\* to_csv of Confirm Delete, then st.rerun()
DeleteWriteBack(s) ==
  /\ pc[s] = "delete"
  /\ LET d == DeleteWrite(buf[s].held, buf[s].dates)
     IN  /\ db' = d
         /\ Rerun(s, d, mort, cfg[s])
  /\ expected' = SelectSeq(expected, LAMBDA r : r.Date \notin buf[s].dates)
  /\ raced' = (raced \/ buf[s].held # SaveRead(db, "Pond"))
  /\ pc' = [pc EXCEPT ![s] = "idle"]
  /\ buf' = [buf EXCEPT ![s] = NoBuf]
  /\ UNCHANGED <<mort, exp, cfg>>

NextConc ==
  \/ \E s \in Sessions, e \in ConcEntries : SubmitRead(s, e)
  \/ \E s \in Sessions : SubmitWrite(s)
  \/ \E s \in Sessions, dates \in SUBSET Dates : DeleteRead(s, dates)
  \/ \E s \in Sessions : DeleteWriteBack(s)

SpecConc == Init /\ [][NextConc]_vars

\* ================================================================= claims

Shown == ui[Operator]

Config == cfg[Operator]

IsPrefix(a, b) == Len(a) <= Len(b) /\ SubSeq(b, 1, Len(a)) = a

\* ------------------------------------------------------------------- C1
\* C1: in each of the three tables an append adds the submitted record as
\* the new last row and leaves every earlier row as it was, so that a table
\* built by appends alone reads back as the submitted records in order.
C1_AppendKeepsRows ==
  [][ /\ \A e \in Entries :
           Submit(Operator, e) =>
             db'.rows = Append(db.rows,
                               EntryRow(e, Config, current_count(mort, Config)))
      /\ \A n \in DeadInputs :
           RecordMortality(Operator, n) =>
             mort'.rows = Append(mort.rows, MortRow(n, Config))
      /\ \A cat \in Categories :
           LogExpense(Operator, cat) =>
             exp'.rows = Append(exp.rows, ExpRow(Today, cat, CostDefault)) ]_vars

\* ------------------------------------------------------------------- C2
\* C2: Confirm Delete with the dates D leaves exactly the rows whose Date is
\* not in D, unchanged and in their order.
C2_DeleteKeepsOthers ==
  [][ \A D \in SUBSET Dates :
        ConfirmDelete(Operator, D) =>
          db'.rows = SelectSeq(db.rows, LAMBDA r : r.Date \notin D) ]_vars

\* ------------------------------------------------------------------- C3
RECURSIVE DeadOfTank(_, _)
\* The sum of Dead_Count over the stored rows whose tank id is `pond`.
DeadOfTank(rows, pond) ==
  IF Len(rows) = 0 THEN 0
  ELSE (IF rows[1].Pond_ID = pond THEN rows[1].Dead_Count ELSE 0)
       + DeadOfTank(Tail(rows), pond)

\* floor(volume * density), both in tenths
Stocked(c) == (c.volume * c.density) \div 100

\* C3: the live population shown is floor(volume * density) minus the dead
\* of the rows stored for the current tank id, whatever its sign.
C3_LivePopulation ==
  Shown.count = Stocked(Config) - DeadOfTank(mort.rows, Config.pond_id)

\* ------------------------------------------------------------------- C4
\* C4 as stated: every stored dead count is a non-negative integer.
C4_DeadNonNegative ==
  \A i \in 1..Len(mort.rows) :
     mort.rows[i].Dead_Count \in Int /\ mort.rows[i].Dead_Count >= 0

\* C4 as amended: every stored dead count is an integer the form submitted,
\* sign included (the form has no minimum).
C4_DeadAsEntered ==
  \A i \in 1..Len(mort.rows) :
     mort.rows[i].Dead_Count \in Int /\ mort.rows[i].Dead_Count \in DeadInputs

\* A negative count is stored, and counted: the population is above stock.
C4_Witness ==
  /\ \E i \in 1..Len(mort.rows) : mort.rows[i].Dead_Count < 0
  /\ Shown.count > Stocked(Config)

\* ------------------------------------------------------------------- C5
\* C5: an absent file is an empty table and no error: without the mortality
\* file the population is the stocked count; without the measurement file
\* tab 2 shows nothing and raises nothing, and there is no download.
C5_AbsentIsEmpty ==
  /\ ~mort.exists => Shown.count = Stocked(Config)
  /\ ~db.exists => Shown.sgr = NoSgr /\ Shown.download = NoDownload
  /\ ~exp.exists => exp.rows = <<>>

\* The mortality file is absent while the other two are there.
C5_Witness ==
  /\ ~mort.exists /\ db.exists /\ exp.exists
  /\ Shown.count = Stocked(Config)
  /\ Shown.download.avail

\* ------------------------------------------------------------------- C6
\* C6: every stored measurement row has Total_N = TAN + NO2 + NO3.
C6_TotalNitrogen ==
  \A i \in 1..Len(db.rows) :
     db.rows[i].Total_N = db.rows[i].TAN + db.rows[i].NO2 + db.rows[i].NO3

\* Two rows of different nitrogen values, the first rewritten by an append.
C6_Witness ==
  /\ Len(db.rows) = 2
  /\ db.rows[1].Total_N = 1011
  /\ db.rows[2].Total_N = -2

\* ------------------------------------------------------------------- C7
RECURSIVE Replay(_, _)
\* The exported rows appended one by one, starting from file f.
Replay(rows, f) ==
  IF Len(rows) = 0 THEN f
  ELSE Replay(Tail(rows), save_data(rows[1], f, "Pond"))

\* C7: the download is the file's content, header and rows, nothing added,
\* and appending its rows to an absent table gives the table's rows.
C7_ExportIsFile ==
  Shown.download.avail =>
    /\ Shown.download.header = DbColumns
    /\ Len(Shown.download.rows) = Len(db.rows)
    /\ \A i \in 1..Len(db.rows) :
          DOMAIN Shown.download.rows[i] = DOMAIN db.rows[i]
    /\ Replay(Shown.download.rows, NoFile).rows = db.rows

\* ------------------------------------------------------------------- C8
\* All the orders in which the stored rows could have been appended.
Reorderings(rows) ==
  { [i \in 1..Len(rows) |-> rows[p[i]]] : p \in Permutations(1..Len(rows)) }

C9_RowsNeverChange ==
  [][ /\ IsPrefix(mort.rows, mort'.rows)
      /\ IsPrefix(exp.rows, exp'.rows)
      /\ \/ IsPrefix(db.rows, db'.rows)
         \/ \E D \in SUBSET Dates :
               db'.rows = SelectSeq(db.rows, LAMBDA r : r.Date \notin D)
      /\ Cardinality({ t \in {"db", "mort", "exp"} :
                         \/ t = "db" /\ db' # db
                         \/ t = "mort" /\ mort' # mort
                         \/ t = "exp" /\ exp' # exp }) <= 1 ]_vars

\* ------------------------------------------------------------------ C10
\* C10: as long as no to_csv has written a frame read before another write
\* (with one session none ever does) the measurement table is exactly what
\* the completed appends and deletes make it; the witness is the other case.
C10_NoLossWithoutRace == ~raced => db.rows = expected

\* Both sessions are done, nothing failed, and an appended record is gone.
C10_Witness ==
  /\ \A s \in Sessions : Idle(s)
  /\ raced
  /\ \E i \in 1..Len(expected) :
        \A k \in 1..Len(db.rows) : db.rows[k] # expected[i]

====
